---- MODULE Spec2Model ----
(***************************************************************************)
(* Doctor availability and appointment scheduling core of the Shastho      *)
(* application: the appointments and doctor_availability_slots tables      *)
(* behind app/utils/db.py, the patient booking and cancellation handlers   *)
(* of app/routes/patient.py and the slot listings.                         *)
(*                                                                         *)
(* Times of day are minutes since midnight.  Strings the code compares     *)
(* are kept in the format the code builds them in: a form time slot is a   *)
(* pair of 12-hour clock readings ("09:00 AM - 09:30 AM"), a stored        *)
(* time_slot is a tstzrange literal built from 24-hour timestamps.         *)
(***************************************************************************)
EXTENDS Integers, Sequences, FiniteSets, TLC

VARIABLES
    appointments,   \* the appointments table
    templates,      \* the doctor_availability_slots table
    pc,             \* where each booking request stands
    req,            \* the form each booking request posted
    result,         \* what each booking request returned
    response        \* the response of the one-step handler that ran last, if any

vars == <<appointments, templates, pc, req, result, response>>

(***************************************************************************)
(* Bounds of the model.                                                    *)
(***************************************************************************)
MaxAppointments == 2
MaxTemplates == 2
MaxGrid == 2

(***************************************************************************)
(* Values of the program.                                                  *)
(***************************************************************************)
None == "None"

SCHEDULED == "scheduled"
COMPLETED == "completed"
CANCELLED == "cancelled"
NO_SHOW == "no-show"
AppointmentStatus == {SCHEDULED, COMPLETED, CANCELLED, NO_SHOW}

Doctors == {"d1", "d2"}
Patients == {"pa", "pb"}
Procs == {"w1", "w2"}
\* the patient profile behind each request worker's session
SessionPatient == [w \in Procs |-> IF w = "w1" THEN "pa" ELSE "pb"]

\* calendar days; day 0 is a Monday
Dates == {0, 1}
\* date.today(): the last modelled day, so that day 0 lies in the past
Today == CHOOSE d \in Dates : \A x \in Dates : x <= d
weekday(d) == d % 7

\* the default schedule of get_time_slots: 9 AM to 5 PM
start_hour == 9
end_hour == 17
\* the slot duration get_available_slots_for_booking falls back to
DefaultDuration == 30

\* the times of day the requests use: 09:00, 09:30, 10:00, ...
Grid == {start_hour * 60 + 30 * k : k \in 0..MaxGrid}
Windows == {w \in Grid \X Grid : w[1] < w[2]}

(***************************************************************************)
(* String formats.                                                         *)
(***************************************************************************)
\* strftime('%I:%M %p'): 12-hour clock reading <<hour 1..12, minute, AM/PM>>
Format12(t) ==
    LET h == t \div 60
        i == IF h % 12 = 0 THEN 12 ELSE h % 12
    IN  <<i, t % 60, IF h < 12 THEN "AM" ELSE "PM">>

\* strptime(s, '%I:%M %p').time()
Parse12(s) == ((s[1] % 12) + (IF s[3] = "PM" THEN 12 ELSE 0)) * 60 + s[2]

\* the display string "<start> - <end>" offered by the listing and posted by the form
DisplaySlot(s, e) == [fmt |-> "display", val |-> <<Format12(s), Format12(e)>>]

\* strftime('%Y-%m-%d %H:%M:%S+00') of datetime.combine(date, time)
FormatTimestamp(d, t) == <<d, t \div 60, t % 60>>
ParseTimestamp(ts) == ts[2] * 60 + ts[3]

\* the tstzrange literal '["<start>","<end>")'
postgres_time_slot(d, s, e) ==
    [fmt |-> "tstzrange", val |-> <<FormatTimestamp(d, s), FormatTimestamp(d, e)>>]

\* Python == on two strings
StrEq(x, y) == x.fmt = y.fmt /\ x.val = y.val

\* the half-open range [start, end) a stored time_slot denotes
RangeOf(a) == <<ParseTimestamp(a.time_slot.val[1]), ParseTimestamp(a.time_slot.val[2])>>

(***************************************************************************)
(* The store: the appointments and doctor_availability_slots tables, kept  *)
(* in insertion order.  An appointment's id is its position in the table.  *)
(***************************************************************************)
RECURSIVE Filter(_, _)
\* the rows of a table that belong to the set keep, in table order
Filter(table, keep) ==
    IF table = <<>> THEN <<>>
    ELSE LET rest == Filter(Tail(table), keep)
         IN  IF Head(table) \in keep THEN <<Head(table)>> \o rest ELSE rest

Range(seq) == {seq[i] : i \in 1..Len(seq)}

\* select * from appointments where doctor_id = .. and date = ..
get_appointments_by_doctor_date(doctor_id, appointment_date) ==
    Filter(appointments, {a \in Range(appointments) :
                            a.doctor_id = doctor_id /\ a.date = appointment_date})

\* the same query, returning the raw rows
get_appointments_by_date(doctor_id, date_str) ==
    Filter(appointments, {a \in Range(appointments) :
                            a.doctor_id = doctor_id /\ a.date = date_str})

get_availability_by_doctor(doctor_id) ==
    Filter(templates, {t \in Range(templates) : t.doctor_id = doctor_id})

get_availability_by_day(doctor_id, day_of_week) ==
    Filter(templates, {t \in Range(templates) :
                            t.doctor_id = doctor_id /\ t.day_of_week = day_of_week})

\* dict.get(key) on a raw row
RowGet(row, key) == IF key \in DOMAIN row THEN row[key] ELSE None

(***************************************************************************)
(* The interval-overlap test, as written in get_available_slots_for_booking*)
(* and in bulk_update_availability.                                        *)
(***************************************************************************)
\* the test with closed upper bounds: a start equal to the other end counts
Overlaps_closed(startA, endA, startB, endB) ==
    \/ (startA >= startB /\ startA <= endB)
    \/ (endA > startB /\ endA <= endB)
    \/ (startA <= startB /\ endA >= endB)

\* the test without its second case: an interval ending inside the other
Overlaps_onesided(startA, endA, startB, endB) ==
    \/ (startA >= startB /\ startA < endB)
    \/ (startA <= startB /\ endA >= endB)

Overlaps(startA, endA, startB, endB) ==
    \/ (startA >= startB /\ startA < endB)
    \/ (endA > startB /\ endA <= endB)
    \/ (startA <= startB /\ endA >= endB)

\* half-open intersection, the reference the overlap test is compared with
HalfOpenOverlap(startA, endA, startB, endB) == startA < endB /\ startB < endA

(***************************************************************************)
(* Slot generation for booking (Database.get_available_slots_for_booking). *)
(***************************************************************************)
\* strftime('%H:%M')
FormatHM(t) == <<t \div 60, t % 60>>
ParseHM(s) == s[1] * 60 + s[2]

\* slot.slot_duration_minutes or 30
EffectiveDuration(slot) ==
    IF slot.slot_duration_minutes = 0
    THEN DefaultDuration ELSE slot.slot_duration_minutes

\* the inner loop over the appointments: is_available for one candidate slot
SlotIsAvailable(slot_time, slot_end, appts) ==
    ~ \E i \in 1..Len(appts) :
        LET appt_start == RowGet(appts[i], "start_time")
            appt_end == RowGet(appts[i], "end_time")
        IN  /\ appt_start # None
            /\ appt_end # None
            /\ Overlaps(slot_time, slot_end, appt_start, appt_end)

\* a negative duration never ends the walk: slot_time decreases until
\* datetime underflows and OverflowError is raised
WalkOverflows(slot) ==
    /\ EffectiveDuration(slot) < 0
    /\ slot.start_time + EffectiveDuration(slot) <= slot.end_time

RECURSIVE SlotWalk_strict(_, _, _, _)
\* the walk with a strict loop test: the slot ending at end_time is dropped
SlotWalk_strict(slot_time, end_time, duration_minutes, appts) ==
    IF duration_minutes <= 0 \/ ~ (slot_time + duration_minutes < end_time)
    THEN <<>>
    ELSE LET slot_end == slot_time + duration_minutes
             rest == SlotWalk_strict(slot_end, end_time, duration_minutes, appts)
         IN  IF SlotIsAvailable(slot_time, slot_end, appts)
             THEN <<[start_time |-> FormatHM(slot_time),
                     end_time |-> FormatHM(slot_end),
                     duration_minutes |-> duration_minutes]>> \o rest
             ELSE rest

RECURSIVE SlotWalk(_, _, _, _)
\* while slot_time + duration <= end_time: ... slot_time += duration
SlotWalk(slot_time, end_time, duration_minutes, appts) ==
    IF duration_minutes <= 0 \/ ~ (slot_time + duration_minutes <= end_time)
    THEN <<>>
    ELSE LET slot_end == slot_time + duration_minutes
             rest == SlotWalk(slot_end, end_time, duration_minutes, appts)
         IN  IF SlotIsAvailable(slot_time, slot_end, appts)
             THEN <<[start_time |-> FormatHM(slot_time),
                     end_time |-> FormatHM(slot_end),
                     duration_minutes |-> duration_minutes]>> \o rest
             ELSE rest

RECURSIVE SlotsOfTemplates(_, _)
\* the outer loop over the day's templates
SlotsOfTemplates(slots, appts) ==
    IF slots = <<>> THEN <<>>
    ELSE LET slot == Head(slots)
             rest == SlotsOfTemplates(Tail(slots), appts)
         IN  IF slot.is_available
             THEN SlotWalk(slot.start_time, slot.end_time,
                           EffectiveDuration(slot), appts) \o rest
             ELSE rest

get_available_slots_for_booking(doctor_id, date_str) ==
    SlotsOfTemplates(get_availability_by_day(doctor_id, weekday(date_str)),
                     get_appointments_by_date(doctor_id, date_str))

\* the service wrapper: any exception of the generator gives the empty list
get_available_booking_slots(doctor_id, date_str) ==
    IF \E i \in 1..Len(templates) :
          /\ templates[i].doctor_id = doctor_id
          /\ templates[i].day_of_week = weekday(date_str)
          /\ templates[i].is_available
          /\ WalkOverflows(templates[i])
    THEN <<>>
    ELSE get_available_slots_for_booking(doctor_id, date_str)

\* the generator leaves through OverflowError instead of returning a list:
\* some template it walks has a duration that never ends the walk
get_available_slots_for_booking_raises(doctor_id, date_str) ==
    LET slots == get_availability_by_day(doctor_id, weekday(date_str))
    IN  \E i \in 1..Len(slots) : slots[i].is_available /\ WalkOverflows(slots[i])

(***************************************************************************)
(* The patient slot listing (get_time_slots).                              *)
(***************************************************************************)
\* the (start, end) display strings of the non-cancelled appointments whose
\* time_slot contains ' - '
booked_time_slots(doctor_id, selected_date) ==
    LET appts == get_appointments_by_doctor_date(doctor_id, selected_date)
    IN  {appts[i].time_slot.val : i \in
            {j \in 1..Len(appts) : /\ appts[j].status # CANCELLED
                                   /\ appts[j].time_slot.fmt = "display"}}

\* the default schedule: 9 AM to 5 PM in 30-minute steps
DefaultWindows ==
    [k \in 1..(2 * (end_hour - start_hour)) |->
        <<start_hour * 60 + 30 * (k - 1), start_hour * 60 + 30 * k>>]

\* one display window per available template of the day: its whole range
TemplateWindows(doctor_id, selected_date) ==
    LET all_slots == get_availability_by_doctor(doctor_id)
        availability_slots ==
            Filter(all_slots, {t \in Range(all_slots) :
                       t.day_of_week = weekday(selected_date) /\ t.is_available})
    IN  [i \in 1..Len(availability_slots) |->
            <<availability_slots[i].start_time, availability_slots[i].end_time>>]

get_time_slots(doctor_id, selected_date) ==
    LET booked == booked_time_slots(doctor_id, selected_date)
        candidates == IF TemplateWindows(doctor_id, selected_date) = <<>>
                      THEN DefaultWindows
                      ELSE TemplateWindows(doctor_id, selected_date)
        NotBooked(w) == <<Format12(w[1]), Format12(w[2])>> \notin booked
        free == SelectSeq(candidates, NotBooked)
    IN  [i \in 1..Len(free) |-> DisplaySlot(free[i][1], free[i][2])]

(***************************************************************************)
(* Booking (submit_appointment).  The handler reads the store for its      *)
(* conflict check and later inserts: two steps, with other requests free   *)
(* to run in between.                                                      *)
(***************************************************************************)
NoReq == [doctor_id |-> None]
NoResult == [outcome |-> None]
NoResponse == [op |-> None]

\* an appointment_time the form parser rejects
BadTime == [fmt |-> "display", val |-> <<>>]
TimeSlotValid(time_slot) == time_slot.fmt = "display" /\ Len(time_slot.val) = 2

\* the check made to depend on the templates: a booking for which no
\* template is stored counts as a conflict
HasConflictIn_templates(existing_appointments, time_slot) ==
    \/ templates = <<>>
    \/ \E i \in 1..Len(existing_appointments) :
          /\ existing_appointments[i].status = SCHEDULED
          /\ StrEq(existing_appointments[i].time_slot, time_slot)

\* the commit-time check over the appointments read: a scheduled one whose
\* time_slot equals the posted appointment_time
HasConflictIn(existing_appointments, time_slot) ==
    LET conflicting_appointments ==
            Filter(existing_appointments,
                   {a \in Range(existing_appointments) : a.status = SCHEDULED})
    IN  \E i \in 1..Len(conflicting_appointments) :
            StrEq(conflicting_appointments[i].time_slot, time_slot)

HasConflict(doctor_id, booking_date, time_slot) ==
    HasConflictIn(get_appointments_by_doctor_date(doctor_id, booking_date), time_slot)

\* the appointment built with the start time used for both ends of the range
new_appointment_startonly(id, r) ==
    [id |-> id,
     patient_id |-> r.patient_id,
     doctor_id |-> r.doctor_id,
     date |-> r.date,
     time_slot |-> postgres_time_slot(r.date, Parse12(r.time_slot.val[1]),
                                      Parse12(r.time_slot.val[1])),
     status |-> SCHEDULED]

\* Appointment(...) as built by submit_appointment
new_appointment(id, r) ==
    [id |-> id,
     patient_id |-> r.patient_id,
     doctor_id |-> r.doctor_id,
     date |-> r.date,
     time_slot |-> postgres_time_slot(r.date, Parse12(r.time_slot.val[1]),
                                      Parse12(r.time_slot.val[2])),
     status |-> SCHEDULED]

\* workers between their conflict check and their insert
Pending == {w \in Procs : pc[w] = "checked"}

\* the handler up to its conflict check.  read_fails: the store raises in
\* get_appointments_by_doctor_date, which prints the error and returns []
SubmitCheckOn(w, patient_id, doctor_id, appointment_date, appointment_time, read_fails) ==
    /\ pc[w] \in {"idle", "done"}
    /\ Len(appointments) + Cardinality(Pending) < MaxAppointments
    /\ LET r == [patient_id |-> patient_id, doctor_id |-> doctor_id,
                 date |-> appointment_date, time_slot |-> appointment_time]
           existing_appointments ==
               IF read_fails THEN <<>>
               ELSE get_appointments_by_doctor_date(doctor_id, appointment_date)
       IN  /\ req' = [req EXCEPT ![w] = r]
           /\ IF ~ TimeSlotValid(appointment_time)
              THEN /\ pc' = [pc EXCEPT ![w] = "done"]
                   /\ result' = [result EXCEPT ![w] = [outcome |-> "invalid"]]
              ELSE IF HasConflictIn(existing_appointments, appointment_time)
              THEN /\ pc' = [pc EXCEPT ![w] = "done"]
                   /\ result' = [result EXCEPT ![w] = [outcome |-> "slot_unavailable"]]
              ELSE /\ pc' = [pc EXCEPT ![w] = "checked"]
                   /\ result' = [result EXCEPT ![w] =
                          IF read_fails THEN [outcome |-> None, read_failed |-> TRUE]
                          ELSE NoResult]
    /\ response' = NoResponse
    /\ UNCHANGED <<appointments, templates>>

\* the same with a store that answers
SubmitCheck(w, patient_id, doctor_id, appointment_date, appointment_time) ==
    SubmitCheckOn(w, patient_id, doctor_id, appointment_date, appointment_time, FALSE)

SubmitInsert(w) ==
    /\ pc[w] = "checked"
    /\ LET row == new_appointment(Len(appointments) + 1, req[w])
       IN  /\ appointments' = Append(appointments, row)
           /\ result' = [result EXCEPT ![w] =
                  [outcome |-> "created", id |-> row.id,
                   \* another request for the same slot was between its
                   \* check and its insert when this one inserted
                   raced |-> \E v \in Procs \ {w} :
                                 /\ pc[v] = "checked"
                                 /\ req[v].doctor_id = req[w].doctor_id
                                 /\ req[v].date = req[w].date
                                 /\ req[v].time_slot = req[w].time_slot]]
    /\ pc' = [pc EXCEPT ![w] = "done"]
    /\ response' = NoResponse
    /\ UNCHANGED <<templates, req>>

(***************************************************************************)
(* Cancellation (cancel_appointment).                                      *)
(***************************************************************************)
\* the status test of the handler.  The status Appointment.from_dict hands
\* out is a member of AppointmentStatus, which is a str: the handler takes
\* its isinstance(.., str) branch, the conversion to the enum succeeds, and
\* the comparison in the except branch is reached only for a value that is
\* no status at all
status_refused(appointment_status) ==
    /\ appointment_status \notin AppointmentStatus
    /\ appointment_status \in {COMPLETED, CANCELLED}

\* the handler without its ownership test
cancel_outcome_anyone(patient_id, appointment_id) ==
    IF appointment_id \notin 1..Len(appointments) THEN "not_found"
    ELSE
    LET appointment == appointments[appointment_id]
    IN  IF status_refused(appointment.status) THEN "already_closed"
        ELSE IF appointment.date < Today THEN "in_the_past"
        ELSE "error"

\* the outcome of the handler for the patient and appointment id given
cancel_outcome(patient_id, appointment_id) ==
    \* db.get_by_id(Appointment, appointment_id)
    IF appointment_id \notin 1..Len(appointments) THEN "not_found"
    ELSE
    LET appointment == appointments[appointment_id]
    IN  IF appointment.patient_id # patient_id THEN "not_found"
        ELSE IF status_refused(appointment.status) THEN "already_closed"
        ELSE IF appointment.date < Today THEN "in_the_past"
        \* db.update(Appointment, appointment.id, {...}) does not match
        \* Database.update(self, model): TypeError, caught by the handler
        ELSE "error"

\* the table after a handler whose update call goes through
cancel_store_applied(patient_id, appointment_id) ==
    IF cancel_outcome(patient_id, appointment_id) = "error"
    THEN [appointments EXCEPT ![appointment_id].status = CANCELLED]
    ELSE appointments

\* the table after the handler: no branch reaches a store write
cancel_store(patient_id, appointment_id) == appointments

cancel_appointment(patient_id, appointment_id) ==
    /\ appointment_id \in 1..Len(appointments)
    /\ appointments' = cancel_store(patient_id, appointment_id)
    /\ response' = [op |-> "cancel_appointment", patient_id |-> patient_id,
                    appointment_id |-> appointment_id,
                    outcome |-> cancel_outcome(patient_id, appointment_id)]
    /\ UNCHANGED <<templates, pc, req, result>>

(***************************************************************************)
(* Slot queries.                                                           *)
(***************************************************************************)
GetTimeSlots(doctor_id, selected_date) ==
    /\ response' = [op |-> "get_time_slots", doctor_id |-> doctor_id,
                    date |-> selected_date,
                    time_slots |-> get_time_slots(doctor_id, selected_date)]
    /\ UNCHANGED <<appointments, templates, pc, req, result>>

GetDoctorBookingSlots(doctor_id, date) ==
    /\ response' = [op |-> "get_doctor_booking_slots", doctor_id |-> doctor_id,
                    date |-> date,
                    slots |-> get_available_booking_slots(doctor_id, date)]
    /\ UNCHANGED <<appointments, templates, pc, req, result>>

(***************************************************************************)
(* Availability templates (add_availability_slot_route).                   *)
(***************************************************************************)
\* the days of the week and the durations the requests use
TemplateDays == {weekday(d) : d \in Dates}
Durations == {0, 30, 60}

\* the template ids a bulk update in progress still holds from its read of
\* the table and from the descriptors it has processed
HeldIds ==
    UNION {IF "existing_slot_ids" \in DOMAIN req[w]
           THEN req[w].existing_slot_ids \cup req[w].processed_slot_ids
           ELSE {} : w \in Procs}

\* a fresh template id: one that no row of the table carries and that no
\* call in progress has seen
uuid4(table) ==
    LET used == {table[i].id : i \in 1..Len(table)} \cup HeldIds
    IN  CHOOSE id \in 1..(Cardinality(used) + 1) :
            /\ id \notin used
            /\ \A other \in 1..(id - 1) : other \in used

\* DoctorAvailabilitySlot(...) as built by add_availability_slot
new_slot(id, doctor_id, day_of_week, start_time, end_time, slot_duration_minutes) ==
    [id |-> id,
     doctor_id |-> doctor_id,
     day_of_week |-> day_of_week,
     start_time |-> start_time,
     end_time |-> end_time,
     is_available |-> TRUE,
     slot_duration_minutes |-> slot_duration_minutes]

\* start_time_str and end_time_str are 'HH:MM' strings
add_availability_slot_route(doctor_id, day_of_week, start_time_str, end_time_str, slot_duration_minutes) ==
    /\ Len(templates) < MaxTemplates
    /\ LET created_slot == new_slot(uuid4(templates), doctor_id, day_of_week,
                                    ParseHM(start_time_str), ParseHM(end_time_str),
                                    slot_duration_minutes)
       IN  /\ templates' = Append(templates, created_slot)
           /\ response' = [op |-> "add_availability_slot", slot |-> created_slot]
    /\ UNCHANGED <<appointments, pc, req, result>>

\* DELETE /availability/delete/<slot_id>: refused when the doctor of the
\* session has no template with this id; store_fails: the store's delete
\* raises, which delete_doctor_availability_slot turns into False
delete_availability_slot_route(doctor_id, slot_id, store_fails) ==
    LET slots == get_availability_by_doctor(doctor_id)
        slot_belongs_to_doctor == \E i \in 1..Len(slots) : slots[i].id = slot_id
        success == slot_belongs_to_doctor /\ ~ store_fails
    IN  /\ templates' = IF success
                        THEN Filter(templates, {t \in Range(templates) : t.id # slot_id})
                        ELSE templates
        /\ response' = [op |-> "delete_availability_slot", slot_id |-> slot_id,
                        denied |-> ~ slot_belongs_to_doctor, success |-> success]
        /\ UNCHANGED <<appointments, pc, req, result>>

(***************************************************************************)
(* Saving a whole availability set (save_availability and                  *)
(* bulk_update_availability).  A posted 'HH:MM' string is the sequence of  *)
(* its characters: a digit is its value and ':' is 10, which keeps the     *)
(* order of the character codes.                                           *)
(***************************************************************************)
\* the zero-padded string of a time of day: "09:00"
PaddedHM(t) ==
    <<(t \div 60) \div 10, (t \div 60) % 10, 10, (t % 60) \div 10, (t % 60) % 10>>

\* the same time without the leading zero of the hour: "9:00"
UnpaddedHM(t) ==
    IF t \div 60 < 10
    THEN <<t \div 60, 10, (t % 60) \div 10, (t % 60) % 10>>
    ELSE PaddedHM(t)

\* datetime.strptime(s, '%H:%M').time(); one or two digits of hour
strptime_HM(s) ==
    LET colon == CHOOSE i \in 1..Len(s) : s[i] = 10
        hour == IF colon = 2 THEN s[1] ELSE s[1] * 10 + s[2]
    IN  hour * 60 + s[colon + 1] * 10 + s[colon + 2]

RECURSIVE StrLess(_, _)
\* Python < on two strings: lexicographic on the characters
StrLess(x, y) ==
    IF y = <<>> THEN FALSE
    ELSE IF x = <<>> THEN TRUE
    ELSE IF x[1] # y[1] THEN x[1] < y[1]
    ELSE StrLess(Tail(x), Tail(y))

\* slot_data.get('slot_duration_minutes', 60)
slot_duration_of(slot_data) ==
    IF "slot_duration_minutes" \in DOMAIN slot_data
    THEN slot_data.slot_duration_minutes ELSE 60

\* slot_data.get('is_available', True)
is_available_of(slot_data) ==
    IF "is_available" \in DOMAIN slot_data THEN slot_data.is_available ELSE TRUE

\* the first loop of bulk_update_availability: the pairs of descriptors of
\* one day it prints as overlapping; nothing else is done with them
overlapping_logged(slots_data) ==
    {<<i, idx>> \in (1..Len(slots_data)) \X (1..Len(slots_data)) :
        /\ idx < i
        /\ slots_data[i].day_of_week = slots_data[idx].day_of_week
        /\ Overlaps(strptime_HM(slots_data[i].start_time),
                    strptime_HM(slots_data[i].end_time),
                    strptime_HM(slots_data[idx].start_time),
                    strptime_HM(slots_data[idx].end_time))}

\* update_availability_slot: the row of the id carries the descriptor's values
updated_row(row, slot_data) ==
    [row EXCEPT !.day_of_week = slot_data.day_of_week,
                !.start_time = strptime_HM(slot_data.start_time),
                !.end_time = strptime_HM(slot_data.end_time),
                !.is_available = is_available_of(slot_data),
                !.slot_duration_minutes = slot_duration_of(slot_data)]

\* the round that never looks the id up: every descriptor makes a new row
process_slot_creating(acc, slot_data, doctor_id, existing_slot_ids, store_fails) ==
    IF store_fails THEN acc
    ELSE LET created == new_slot(uuid4(acc.table), doctor_id, slot_data.day_of_week,
                                 strptime_HM(slot_data.start_time),
                                 strptime_HM(slot_data.end_time),
                                 slot_duration_of(slot_data))
         IN  [table |-> Append(acc.table, created),
              processed_slot_ids |-> acc.processed_slot_ids \cup {created.id}]

\* one round of the second loop.  acc is the table and processed_slot_ids so
\* far; store_fails says that the store call of this record raises, which
\* the loop prints and passes over
process_slot(acc, slot_data, doctor_id, existing_slot_ids, store_fails) ==
    IF slot_data.id # 0 /\ slot_data.id \in existing_slot_ids
    THEN [table |-> IF store_fails THEN acc.table
                    ELSE [k \in 1..Len(acc.table) |->
                            IF acc.table[k].id = slot_data.id
                            THEN updated_row(acc.table[k], slot_data)
                            ELSE acc.table[k]],
          processed_slot_ids |-> acc.processed_slot_ids \cup {slot_data.id}]
    ELSE IF store_fails THEN acc
    ELSE LET created == new_slot(uuid4(acc.table), doctor_id, slot_data.day_of_week,
                                 strptime_HM(slot_data.start_time),
                                 strptime_HM(slot_data.end_time),
                                 slot_duration_of(slot_data))
         IN  [table |-> Append(acc.table, created),
              processed_slot_ids |-> acc.processed_slot_ids \cup {created.id}]

RECURSIVE process_slots(_, _, _, _, _, _)
\* for slot_data in slots_data: ..., from descriptor i on
process_slots(acc, slots_data, i, doctor_id, existing_slot_ids, failing) ==
    IF i > Len(slots_data) THEN acc
    ELSE process_slots(process_slot(acc, slots_data[i], doctor_id,
                                    existing_slot_ids, i \in failing),
                       slots_data, i + 1, doctor_id, existing_slot_ids, failing)

\* the call without its last loop: nothing is deleted
bulk_update_availability_keeping(table, doctor_id, slots_data, failing) ==
    LET existing_slot_ids ==
            {table[i].id : i \in {j \in 1..Len(table) : table[j].doctor_id = doctor_id}}
    IN  process_slots([table |-> table, processed_slot_ids |-> {}],
                      slots_data, 1, doctor_id, existing_slot_ids, failing).table

\* the table bulk_update_availability leaves: the descriptors applied, then
\* the doctor's earlier templates that no descriptor named deleted
bulk_update_availability(table, doctor_id, slots_data, failing) ==
    LET existing_slot_ids ==
            {table[i].id : i \in {j \in 1..Len(table) : table[j].doctor_id = doctor_id}}
        acc == process_slots([table |-> table, processed_slot_ids |-> {}],
                             slots_data, 1, doctor_id, existing_slot_ids, failing)
    IN  Filter(acc.table,
               {t \in Range(acc.table) :
                    ~ (t.id \in existing_slot_ids /\ t.id \notin acc.processed_slot_ids)})

\* bulk_update_availability run by worker w in steps, so that two calls can
\* interleave: the read of the doctor's templates, one round of the second
\* loop per step, one deletion per step, and the return
BulkRead(w, doctor_id, slots_data) ==
    /\ pc[w] = "idle"
    /\ LET existing_slots == get_availability_by_doctor(doctor_id)
       IN  req' = [req EXCEPT ![w] =
                      [doctor_id |-> doctor_id, slots_data |-> slots_data, i |-> 1,
                       existing_slot_ids |-> {existing_slots[k].id : k \in 1..Len(existing_slots)},
                       processed_slot_ids |-> {}]]
    /\ pc' = [pc EXCEPT ![w] = "processing"]
    /\ response' = NoResponse
    /\ UNCHANGED <<appointments, templates, result>>

BulkProcess(w) ==
    /\ pc[w] = "processing"
    /\ req[w].i <= Len(req[w].slots_data)
    /\ LET acc == process_slot([table |-> templates,
                                processed_slot_ids |-> req[w].processed_slot_ids],
                               req[w].slots_data[req[w].i], req[w].doctor_id,
                               req[w].existing_slot_ids, FALSE)
       IN  /\ Len(acc.table) <= MaxTemplates
           /\ templates' = acc.table
           /\ req' = [req EXCEPT ![w].i = @ + 1,
                                 ![w].processed_slot_ids = acc.processed_slot_ids]
    /\ response' = NoResponse
    /\ UNCHANGED <<appointments, pc, result>>

\* the ids the last loop has still to delete
BulkRemoved(w) == req[w].existing_slot_ids \ req[w].processed_slot_ids

BulkDelete(w) ==
    /\ pc[w] = "processing"
    /\ req[w].i > Len(req[w].slots_data)
    /\ BulkRemoved(w) # {}
    /\ LET slot_id == CHOOSE id \in BulkRemoved(w) : \A other \in BulkRemoved(w) : id <= other
       IN  /\ templates' = Filter(templates, {t \in Range(templates) : t.id # slot_id})
           /\ req' = [req EXCEPT ![w].existing_slot_ids = @ \ {slot_id}]
    /\ response' = NoResponse
    /\ UNCHANGED <<appointments, pc, result>>

BulkReturn(w) ==
    /\ pc[w] = "processing"
    /\ req[w].i > Len(req[w].slots_data)
    /\ BulkRemoved(w) = {}
    /\ pc' = [pc EXCEPT ![w] = "returned"]
    /\ result' = [result EXCEPT ![w] = [outcome |-> TRUE]]
    /\ response' = [op |-> "bulk_update_availability", worker |-> w]
    /\ UNCHANGED <<appointments, templates, req>>

\* the validation loop of save_availability: the first descriptor it refuses,
\* 0 when it refuses none
first_invalid_slot(slots_data) ==
    LET refused == {i \in 1..Len(slots_data) :
                      \/ ~ (0 <= slots_data[i].day_of_week /\ slots_data[i].day_of_week <= 6)
                      \* slot['start_time'] >= slot['end_time'], on the strings
                      \/ ~ StrLess(slots_data[i].start_time, slots_data[i].end_time)}
    IN  IF refused = {} THEN 0
        ELSE CHOOSE i \in refused : \A j \in refused : i <= j

\* failing: the descriptors whose store call raises during this request
save_availability(doctor_id, slots_data, failing) ==
    LET invalid == first_invalid_slot(slots_data)
        saved == bulk_update_availability(templates, doctor_id, slots_data, failing)
    IN  /\ invalid = 0 => Len(saved) <= MaxTemplates
        /\ templates' = IF invalid # 0 THEN templates ELSE saved
        /\ response' = [op |-> "save_availability", doctor_id |-> doctor_id,
                        slots |-> slots_data, failing |-> failing,
                        success |-> (invalid = 0),
                        invalid |-> invalid]
        /\ UNCHANGED <<appointments, pc, req, result>>

(***************************************************************************)
(* Specifications.                                                         *)
(***************************************************************************)
\* rows found in the store at start-up: at most one appointment, of any
\* status, for the second half hour of the grid
SeedAppointments ==
    {<<>>} \cup
    {<<[id |-> 1, patient_id |-> "pa", doctor_id |-> "d1", date |-> Today,
        time_slot |-> postgres_time_slot(Today, start_hour * 60 + 30, start_hour * 60 + 60),
        status |-> st]>> : st \in AppointmentStatus}

\* templates found in the store at start-up of the booking specification
SeedTemplates ==
    {<<>>,
     <<new_slot(1, "d1", weekday(Today), start_hour * 60, start_hour * 60 + 60, 30)>>}

FormTimes == {DisplaySlot(w[1], w[2]) : w \in Windows} \cup {BadTime}

\* booking, cancellation and the patient listing over a fixed template set,
\* with one booking request in flight at a time
Init ==
    /\ appointments \in SeedAppointments
    /\ templates \in SeedTemplates
    /\ pc = [w \in Procs |-> "idle"]
    /\ req = [w \in Procs |-> NoReq]
    /\ result = [w \in Procs |-> NoResult]
    /\ response = NoResponse

Next ==
    \/ \E d \in Doctors, dt \in Dates, t \in FormTimes :
          SubmitCheck("w1", SessionPatient["w1"], d, dt, t)
    \/ SubmitInsert("w1")
    \/ \E p \in Patients, id \in 1..MaxAppointments : cancel_appointment(p, id)
    \/ \E d \in Doctors, dt \in Dates : GetTimeSlots(d, dt)

Spec == Init /\ [][Next]_vars

\* two booking requests running concurrently, each in its patient's session
InitRace ==
    /\ appointments \in SeedAppointments
    /\ templates = <<>>
    /\ pc = [w \in Procs |-> "idle"]
    /\ req = [w \in Procs |-> NoReq]
    /\ result = [w \in Procs |-> NoResult]
    /\ response = NoResponse

NextRace ==
    \/ \E w \in Procs, d \in Doctors, dt \in Dates, t \in FormTimes :
          SubmitCheck(w, SessionPatient[w], d, dt, t)
    \/ \E w \in Procs : SubmitInsert(w)

SpecRace == InitRace /\ [][NextRace]_vars

\* slot generation over the templates the doctors add
InitSlots ==
    /\ appointments \in SeedAppointments
    /\ templates = <<>>
    /\ pc = [w \in Procs |-> "idle"]
    /\ req = [w \in Procs |-> NoReq]
    /\ result = [w \in Procs |-> NoResult]
    /\ response = NoResponse

NextSlots ==
    \/ \E d \in Doctors, day \in TemplateDays, w \in Windows, m \in Durations :
          add_availability_slot_route(d, day, FormatHM(w[1]), FormatHM(w[2]), m)
    \/ \E d \in Doctors, dt \in Dates : GetDoctorBookingSlots(d, dt)

SpecSlots == InitSlots /\ [][NextSlots]_vars

\* one booking request at a time against a store whose reads may fail
InitFaults ==
    /\ appointments \in SeedAppointments
    /\ templates = <<>>
    /\ pc = [w \in Procs |-> "idle"]
    /\ req = [w \in Procs |-> NoReq]
    /\ result = [w \in Procs |-> NoResult]
    /\ response = NoResponse

NextFaults ==
    \/ \E d \in Doctors, dt \in Dates, t \in FormTimes, read_fails \in BOOLEAN :
          SubmitCheckOn("w1", SessionPatient["w1"], d, dt, t, read_fails)
    \/ SubmitInsert("w1")

SpecFaults == InitFaults /\ [][NextFaults]_vars

\* rows whose time_slot is the display string 'HH:MM AM - HH:MM AM', the
\* other format the handlers read (' - ' in time_slot)
DisplaySeedAppointments ==
    {<<[id |-> 1, patient_id |-> "pa", doctor_id |-> "d1", date |-> Today,
        time_slot |-> DisplaySlot(start_hour * 60 + 30, start_hour * 60 + 60),
        status |-> st]>> : st \in AppointmentStatus}

\* booking, cancellation and the patient listing over a store that holds a
\* row of either format
InitFormats ==
    /\ appointments \in SeedAppointments \cup DisplaySeedAppointments
    /\ templates \in SeedTemplates
    /\ pc = [w \in Procs |-> "idle"]
    /\ req = [w \in Procs |-> NoReq]
    /\ result = [w \in Procs |-> NoResult]
    /\ response = NoResponse

NextFormats ==
    \/ \E d \in Doctors, dt \in Dates, t \in FormTimes :
          SubmitCheck("w1", SessionPatient["w1"], d, dt, t)
    \/ SubmitInsert("w1")
    \/ \E d \in Doctors, dt \in Dates : GetTimeSlots(d, dt)

SpecFormats == InitFormats /\ [][NextFormats]_vars

\* a template row as the store may hold it: switched on or off, and with
\* the optional date range valid_from..valid_until that from_dict reads.  A
\* bound that is not set is the empty sequence
SeedTemplatesWithValidity ==
    {<<>>} \cup
    {<<[new_slot(1, "d1", weekday(Today), start_hour * 60, start_hour * 60 + 60, 30)
          EXCEPT !.is_available = a] @@ [valid_from |-> r[1], valid_until |-> r[2]]>> :
        a \in BOOLEAN,
        r \in {<<<<>>, <<>>>>} \cup {<<<<d>>, <<d>>>> : d \in Dates}}

\* the two listings over the rows found in the store
InitValidity ==
    /\ appointments \in SeedAppointments
    /\ templates \in SeedTemplatesWithValidity
    /\ pc = [w \in Procs |-> "idle"]
    /\ req = [w \in Procs |-> NoReq]
    /\ result = [w \in Procs |-> NoResult]
    /\ response = NoResponse

NextValidity ==
    \/ \E d \in Doctors, dt \in Dates : GetDoctorBookingSlots(d, dt)
    \/ \E d \in Doctors, dt \in Dates : GetTimeSlots(d, dt)

SpecValidity == InitValidity /\ [][NextValidity]_vars

\* the doctor profile behind the session that saves availability sets
SessionDoctor == "d1"

\* the descriptors the availability page posts: new ones (no id) for the
\* first hour of the grid, for its second half hour, for a day that does not
\* exist, with the end before the start (hour written "9" and "09") and
\* with a duration of 0; and edits that switch a stored template off
SubmittedSlots ==
    LET day == weekday(Today)
        nine == start_hour * 60
        posted(id, d, s, e, m) ==
            [id |-> id, day_of_week |-> d, start_time |-> s, end_time |-> e,
             slot_duration_minutes |-> m, is_available |-> TRUE]
    IN  {posted(0, day, PaddedHM(nine), PaddedHM(nine + 60), 30),
         posted(0, day, PaddedHM(nine + 30), PaddedHM(nine + 60), 30),
         posted(0, 7, PaddedHM(nine), PaddedHM(nine + 60), 30),
         posted(0, day, PaddedHM(nine + 60), UnpaddedHM(nine), 30),
         posted(0, day, PaddedHM(nine + 60), PaddedHM(nine), 30),
         posted(0, day, PaddedHM(nine), PaddedHM(nine + 60), 0)}
        \cup {[posted(id, day, PaddedHM(nine), PaddedHM(nine + 60), 30)
                   EXCEPT !.is_available = FALSE] : id \in 1..MaxTemplates}

\* the availability sets posted: one or two descriptors
SubmittedSets ==
    {<<a>> : a \in SubmittedSlots} \cup {<<a, b>> : a, b \in SubmittedSlots}

\* the availability page of one doctor over an empty table; failing says
\* whether the store call of the first descriptor raises
InitAvail ==
    /\ appointments = <<>>
    /\ templates = <<>>
    /\ pc = [w \in Procs |-> "idle"]
    /\ req = [w \in Procs |-> NoReq]
    /\ result = [w \in Procs |-> NoResult]
    /\ response = NoResponse

NextAvail ==
    \/ \E slots_data \in SubmittedSets :
          \E failing \in {{}, {1}} :
              save_availability(SessionDoctor, slots_data, failing)

SpecAvail == InitAvail /\ [][NextAvail]_vars

\* a patient's booking with the doctor's availability page at work in
\* between: single-descriptor saves and deletions of a template
InitInterleave ==
    /\ appointments \in SeedAppointments
    /\ templates \in SeedTemplates
    /\ pc = [w \in Procs |-> "idle"]
    /\ req = [w \in Procs |-> NoReq]
    /\ result = [w \in Procs |-> NoResult]
    /\ response = NoResponse

NextInterleave ==
    \/ \E d \in Doctors, dt \in Dates, t \in FormTimes :
          SubmitCheck("w1", SessionPatient["w1"], d, dt, t)
    \/ SubmitInsert("w1")
    \/ \E a \in SubmittedSlots : save_availability(SessionDoctor, <<a>>, {})
    \/ \E id \in 1..MaxTemplates : \E store_fails \in BOOLEAN :
          delete_availability_slot_route(SessionDoctor, id, store_fails)

SpecInterleave == InitInterleave /\ [][NextInterleave]_vars

\* the descriptor lists of the concurrent saves: a new template for the
\* first hour of the grid or for its second half hour, or the stored
\* template switched off
BulkSets ==
    {<<a>> : a \in {d \in SubmittedSlots :
                      /\ d.id \in {0, 1}
                      /\ first_invalid_slot(<<d>>) = 0
                      /\ slot_duration_of(d) > 0}}

\* two saves of the same doctor's availability running concurrently
InitBulk ==
    /\ appointments = <<>>
    /\ templates \in SeedTemplates
    /\ pc = [w \in Procs |-> "idle"]
    /\ req = [w \in Procs |-> NoReq]
    /\ result = [w \in Procs |-> NoResult]
    /\ response = NoResponse

NextBulk ==
    \/ \E w \in Procs, slots_data \in BulkSets : BulkRead(w, SessionDoctor, slots_data)
    \/ \E w \in Procs : BulkProcess(w)
    \/ \E w \in Procs : BulkDelete(w)
    \/ \E w \in Procs : BulkReturn(w)

SpecBulk == InitBulk /\ [][NextBulk]_vars

\* the durations a posted descriptor may carry: nothing validates them
PostedDurations == {-30, 0, 30}

\* new templates for the first hour of the grid and for its second half
\* hour, with each of the durations
DurationSlots ==
    {[id |-> 0, day_of_week |-> weekday(Today), start_time |-> PaddedHM(s),
      end_time |-> PaddedHM(start_hour * 60 + 60), slot_duration_minutes |-> m,
      is_available |-> TRUE] :
        s \in {start_hour * 60, start_hour * 60 + 30}, m \in PostedDurations}

DurationSets ==
    {<<a>> : a \in DurationSlots} \cup {<<a, b>> : a, b \in DurationSlots}

\* the availability page saving templates of any duration, and the
\* booking-slot listing over them
InitDurations ==
    /\ appointments \in SeedAppointments
    /\ templates = <<>>
    /\ pc = [w \in Procs |-> "idle"]
    /\ req = [w \in Procs |-> NoReq]
    /\ result = [w \in Procs |-> NoResult]
    /\ response = NoResponse

NextDurations ==
    \/ \E slots_data \in DurationSets : save_availability(SessionDoctor, slots_data, {})
    \/ \E d \in Doctors, dt \in Dates : GetDoctorBookingSlots(d, dt)

SpecDurations == InitDurations /\ [][NextDurations]_vars

(***************************************************************************)
(* The DoctorAvailabilitySlot model class: to_dict and from_dict.  A       *)
(* datetime.time is a record of its hour, minute and second; an id is a    *)
(* UUID object or its string.                                              *)
(***************************************************************************)
UUID(k) == [type |-> "UUID", val |-> k]
\* str(x) of a UUID or of a string
str(x) == [type |-> "str", val |-> x.val]

\* the datetime.time of a time of day in minutes
time(t) == [hour |-> t \div 60, minute |-> t % 60, second |-> 0]
\* the value from_dict keeps when a string does not parse
NoTime == [hour |-> None]

\* time.isoformat() without the seconds
isoformat_short(tm) ==
    <<tm.hour \div 10, tm.hour % 10, 10, tm.minute \div 10, tm.minute % 10>>

\* time.isoformat() of a naive time with no microseconds: 'HH:MM:SS'
isoformat(tm) ==
    <<tm.hour \div 10, tm.hour % 10, 10, tm.minute \div 10, tm.minute % 10, 10,
      tm.second \div 10, tm.second % 10>>

\* s.split('+')[0]; '+' is the character 11
split_plus(s) ==
    IF \E i \in 1..Len(s) : s[i] = 11
    THEN SubSeq(s, 1, (CHOOSE i \in 1..Len(s) :
                          s[i] = 11 /\ \A j \in 1..(i - 1) : s[j] # 11) - 1)
    ELSE s

\* time.fromisoformat(s) for 'HH:MM' and 'HH:MM:SS'; ValueError gives NoTime
fromisoformat(s) ==
    IF /\ Len(s) \in {5, 8}
       /\ \A i \in 1..Len(s) : IF i \in {3, 6} THEN s[i] = 10 ELSE s[i] \in 0..9
       /\ s[1] * 10 + s[2] < 24
       /\ s[4] * 10 + s[5] < 60
       /\ Len(s) = 8 => s[7] * 10 + s[8] < 60
    THEN [hour |-> s[1] * 10 + s[2], minute |-> s[4] * 10 + s[5],
          second |-> IF Len(s) = 8 THEN s[7] * 10 + s[8] ELSE 0]
    ELSE NoTime

DoctorAvailabilitySlot_to_dict(slot) ==
    [id |-> str(slot.id),
     doctor_id |-> str(slot.doctor_id),
     day_of_week |-> slot.day_of_week,
     start_time |-> isoformat(slot.start_time),
     end_time |-> isoformat(slot.end_time),
     is_available |-> slot.is_available,
     slot_duration_minutes |-> slot.slot_duration_minutes]

DoctorAvailabilitySlot_from_dict(data) ==
    [id |-> data.id,
     doctor_id |-> data.doctor_id,
     day_of_week |-> data.day_of_week,
     start_time |-> fromisoformat(split_plus(data.start_time)),
     end_time |-> fromisoformat(split_plus(data.end_time)),
     is_available |-> data.is_available,
     slot_duration_minutes |-> data.slot_duration_minutes]

\* the slot object at hand is converted to its dictionary and back
slot_round_trip ==
    /\ response.op = "slot_object"
    /\ response' = [op |-> "slot_round_trip", slot |-> response.slot,
                    slot_dict |-> DoctorAvailabilitySlot_to_dict(response.slot),
                    new_slot |-> DoctorAvailabilitySlot_from_dict(
                                     DoctorAvailabilitySlot_to_dict(response.slot))]
    /\ UNCHANGED <<appointments, templates, pc, req, result>>

\* the times of day of the slot objects: midnight, the grid, 5 PM
ClockTimes == {0, end_hour * 60} \cup Grid

\* the slot objects the program builds
SlotObjects ==
    {[id |-> UUID(k), doctor_id |-> UUID(d), day_of_week |-> day,
      start_time |-> time(s), end_time |-> time(e),
      is_available |-> a, slot_duration_minutes |-> m] :
        k \in 1..MaxTemplates, d \in Doctors, day \in 0..6,
        s \in ClockTimes, e \in ClockTimes, a \in BOOLEAN, m \in Durations}

InitModels ==
    /\ appointments = <<>>
    /\ templates = <<>>
    /\ pc = [w \in Procs |-> "idle"]
    /\ req = [w \in Procs |-> NoReq]
    /\ result = [w \in Procs |-> NoResult]
    /\ response \in {[op |-> "slot_object", slot |-> slot] : slot \in SlotObjects}

NextModels == slot_round_trip

SpecModels == InitModels /\ [][NextModels]_vars

(***************************************************************************)
(* Vocabulary of the properties.                                           *)
(***************************************************************************)
\* the window [start, end) a posted form asks for
RequestedWindow(r) ==
    CHOOSE w \in Windows : DisplaySlot(w[1], w[2]) = r.time_slot

SameSlot(r1, r2) ==
    /\ r1.doctor_id = r2.doctor_id
    /\ r1.date = r2.date
    /\ r1.time_slot = r2.time_slot

\* appointments of a doctor and date that hold capacity and overlap a window
Occupying(doctor_id, date, w) ==
    {i \in 1..Len(appointments) :
        /\ appointments[i].doctor_id = doctor_id
        /\ appointments[i].date = date
        /\ appointments[i].status # CANCELLED
        /\ HalfOpenOverlap(RangeOf(appointments[i])[1], RangeOf(appointments[i])[2],
                           w[1], w[2])}

\* worker w returns from submit_appointment in this step
Returns(w) ==
    /\ pc'[w] = "done"
    /\ \/ pc[w] = "checked"
       \/ pc[w] = "idle"
       \/ req'[w] # req[w]
       \/ result'[w] # result[w]

(***************************************************************************)
(* C1.  Two booking requests for the same doctor, date and window whose    *)
(* checks and inserts interleave: exactly one returns a created            *)
(* appointment, the other is rejected as unavailable, and at most one      *)
(* scheduled appointment exists for the window afterwards.                 *)
(***************************************************************************)
C1_ExactlyOneOfTwoConcurrentBookings ==
    \A w \in Procs : \A v \in Procs \ {w} :
        ( /\ pc[w] = "done" /\ pc[v] = "done"
          /\ result[w].outcome = "created"
          /\ result[w].raced
          /\ SameSlot(req[w], req[v]) )
        => /\ result[v].outcome = "slot_unavailable"
           /\ Cardinality({i \in Occupying(req[w].doctor_id, req[w].date,
                                           RequestedWindow(req[w])) :
                              appointments[i].status = SCHEDULED}) <= 1

(***************************************************************************)
(* C2.  In every state reached by bookings and cancellations, no two       *)
(* appointments of the same doctor and date that are not cancelled have    *)
(* overlapping half-open time ranges.                                      *)
(***************************************************************************)
C2_NoOverlappingAppointments ==
    \A i \in 1..Len(appointments) : \A j \in 1..Len(appointments) :
        ( /\ i < j
          /\ appointments[i].doctor_id = appointments[j].doctor_id
          /\ appointments[i].date = appointments[j].date
          /\ appointments[i].status # CANCELLED
          /\ appointments[j].status # CANCELLED )
        => ~ HalfOpenOverlap(RangeOf(appointments[i])[1], RangeOf(appointments[i])[2],
                             RangeOf(appointments[j])[1], RangeOf(appointments[j])[2])

(***************************************************************************)
(* C3.  A booking that returns while a non-cancelled appointment of the    *)
(* requested doctor and date overlaps the requested window returns         *)
(* slot-unavailable and leaves the stored appointments unchanged.          *)
(***************************************************************************)
C3_ConflictRejected ==
    [][\A w \in Procs :
          ( /\ Returns(w)
            /\ TimeSlotValid(req'[w].time_slot)
            /\ Occupying(req'[w].doctor_id, req'[w].date,
                         RequestedWindow(req'[w])) # {} )
          => /\ result'[w].outcome = "slot_unavailable"
             /\ appointments' = appointments]_vars

(***************************************************************************)
(* C4.  A booking that returns while no non-cancelled appointment of the   *)
(* requested doctor and date overlaps the requested window has inserted    *)
(* exactly one appointment: scheduled, with the requested doctor, patient, *)
(* date and window; every other appointment is as before.                  *)
(***************************************************************************)
C4_FreeSlotBooked ==
    [][\A w \in Procs :
          ( /\ Returns(w)
            /\ TimeSlotValid(req'[w].time_slot)
            /\ Occupying(req'[w].doctor_id, req'[w].date,
                         RequestedWindow(req'[w])) = {} )
          => /\ result'[w].outcome = "created"
             /\ Len(appointments') = Len(appointments) + 1
             /\ SubSeq(appointments', 1, Len(appointments)) = appointments
             /\ LET a == appointments'[Len(appointments')]
                IN  /\ a.status = SCHEDULED
                    /\ a.doctor_id = req'[w].doctor_id
                    /\ a.patient_id = SessionPatient[w]
                    /\ a.date = req'[w].date
                    /\ RangeOf(a) = RequestedWindow(req'[w])]_vars

\* a booking has been created in a window nothing else occupies
C4_Witness ==
    \E w \in Procs :
        /\ pc[w] = "done"
        /\ result[w].outcome = "created"
        /\ Occupying(req[w].doctor_id, req[w].date, RequestedWindow(req[w]))
             = {result[w].id}

(***************************************************************************)
(* Vocabulary of the slot-generation properties.                           *)
(***************************************************************************)
\* the templates that apply to a doctor and date, in table order
Matching(doctor_id, date) ==
    Filter(templates, {t \in Range(templates) :
                          /\ t.doctor_id = doctor_id
                          /\ t.day_of_week = weekday(date)
                          /\ t.is_available})

\* the windows [s+k*d, s+(k+1)*d) within [s, e), in increasing order
ExpectedWindows(s, e, d) ==
    [k \in 1..((e - s) \div d) |-> <<s + (k - 1) * d, s + k * d>>]

\* the candidate windows of a template
CandidatesOf(t) ==
    Range(ExpectedWindows(t.start_time, t.end_time, EffectiveDuration(t)))

\* the windows a booking-slots response lists, in response order
Listed(r) == [i \in 1..Len(r.slots) |->
                 <<ParseHM(r.slots[i].start_time), ParseHM(r.slots[i].end_time)>>]

BookingSlotsAnswered == response.op = "get_doctor_booking_slots"

(***************************************************************************)
(* C5.  The booking-slot listing leaves a candidate slot out if and only   *)
(* if an appointment of that doctor and date that is not cancelled         *)
(* overlaps the slot's window.                                             *)
(***************************************************************************)
C5_SlotListedIffFree ==
    BookingSlotsAnswered =>
        \A i \in 1..Len(Matching(response.doctor_id, response.date)) :
            \A c \in CandidatesOf(Matching(response.doctor_id, response.date)[i]) :
                (c \in Range(Listed(response)))
                    <=> (Occupying(response.doctor_id, response.date, c) = {})

(***************************************************************************)
(* C6.  Cancelling a scheduled appointment (by its patient, not in the     *)
(* past) succeeds, and the slot query that follows lists the appointment's *)
(* window again when the listing offers that window at all.                *)
(***************************************************************************)
\* the windows the patient listing would offer with no appointment stored
ListingCandidates(doctor_id, date) ==
    IF TemplateWindows(doctor_id, date) = <<>>
    THEN Range(DefaultWindows) ELSE Range(TemplateWindows(doctor_id, date))

C7_Applies ==
    /\ BookingSlotsAnswered
    /\ get_appointments_by_date(response.doctor_id, response.date) = <<>>
    /\ Len(Matching(response.doctor_id, response.date)) = 1
    /\ LET t == Matching(response.doctor_id, response.date)[1]
       IN  t.start_time < t.end_time /\ t.slot_duration_minutes > 0

C7_SlotsTileTemplate ==
    C7_Applies =>
        LET t == Matching(response.doctor_id, response.date)[1]
        IN  /\ Listed(response)
                 = ExpectedWindows(t.start_time, t.end_time, t.slot_duration_minutes)
            /\ \A i \in 1..Len(response.slots) :
                  /\ Listed(response)[i][1] >= t.start_time
                  /\ Listed(response)[i][2] <= t.end_time
                  /\ response.slots[i].duration_minutes = t.slot_duration_minutes

\* a one-hour template in half-hour steps has been expanded into its two slots
C7_Witness ==
    /\ C7_Applies
    /\ Len(response.slots) = 2

(***************************************************************************)
(* C8.  The list returned by one booking-slot query is in chronological    *)
(* order, no two of its slots overlap, and no window appears twice.        *)
(***************************************************************************)
C8_SlotsOrderedAndDisjoint ==
    BookingSlotsAnswered =>
        \A i \in 1..Len(response.slots) : \A j \in 1..Len(response.slots) :
            i < j =>
                /\ Listed(response)[i][1] < Listed(response)[j][1]
                /\ ~ HalfOpenOverlap(Listed(response)[i][1], Listed(response)[i][2],
                                     Listed(response)[j][1], Listed(response)[j][2])

(***************************************************************************)
(* The overlap test on its own: one evaluation for a pair of intervals, as *)
(* the validation loop of bulk_update_availability performs it for a pair  *)
(* of descriptors of the same day.                                         *)
(***************************************************************************)
MaxTick == 3
Ticks == 0..MaxTick

overlap_check(start_time, end_time, st, et) ==
    /\ response' = [op |-> "overlap_check",
                    start_time |-> start_time, end_time |-> end_time,
                    st |-> st, et |-> et,
                    overlapping |-> Overlaps(start_time, end_time, st, et)]
    /\ UNCHANGED <<appointments, templates, pc, req, result>>

InitOverlap ==
    /\ appointments = <<>>
    /\ templates = <<>>
    /\ pc = [w \in Procs |-> "idle"]
    /\ req = [w \in Procs |-> NoReq]
    /\ result = [w \in Procs |-> NoResult]
    /\ response = NoResponse

NextOverlap ==
    \E a \in Ticks, b \in Ticks, c \in Ticks, d \in Ticks : overlap_check(a, b, c, d)

SpecOverlap == InitOverlap /\ [][NextOverlap]_vars

OverlapAnswered == response.op = "overlap_check"
\* both intervals of the evaluation are proper: start before end
WellFormed == response.start_time < response.end_time /\ response.st < response.et

(***************************************************************************)
(* C9.  The overlap test answers true exactly when startA < endB and       *)
(* startB < endA; in particular it answers false when endA = startB.       *)
(***************************************************************************)
\* as claimed: for every four time values
C9_HalfOpenForAllValues ==
    OverlapAnswered =>
        /\ response.overlapping
             <=> HalfOpenOverlap(response.start_time, response.end_time,
                                 response.st, response.et)
        /\ response.end_time = response.st => ~ response.overlapping

\* as amended: for every two intervals with start before end
C9_HalfOpenForIntervals ==
    (OverlapAnswered /\ WellFormed) =>
        /\ response.overlapping
             <=> HalfOpenOverlap(response.start_time, response.end_time,
                                 response.st, response.et)
        /\ response.end_time = response.st => ~ response.overlapping

\* two proper intervals that partly overlap have been reported as overlapping
C9_Witness ==
    /\ OverlapAnswered /\ WellFormed
    /\ response.start_time < response.st
    /\ response.st < response.end_time
    /\ response.end_time < response.et
    /\ response.overlapping

(***************************************************************************)
(* C10.  The overlap test gives the same answer with its two intervals     *)
(* swapped, and never reports two intervals that only share a boundary.    *)
(***************************************************************************)
SharesBoundaryOnly ==
    response.end_time = response.st \/ response.et = response.start_time

\* as claimed: for all inputs
C10_SymmetricForAllValues ==
    OverlapAnswered =>
        /\ response.overlapping
             = Overlaps(response.st, response.et, response.start_time, response.end_time)
        /\ SharesBoundaryOnly => ~ response.overlapping

\* as amended: for every two intervals with start before end
C10_SymmetricForIntervals ==
    (OverlapAnswered /\ WellFormed) =>
        /\ response.overlapping
             = Overlaps(response.st, response.et, response.start_time, response.end_time)
        /\ SharesBoundaryOnly => ~ response.overlapping

\* two adjacent proper intervals have been reported as not overlapping
C10_Witness ==
    /\ OverlapAnswered /\ WellFormed
    /\ response.et = response.start_time
    /\ ~ response.overlapping

(***************************************************************************)
(* Vocabulary of the availability-set properties.                          *)
(***************************************************************************)
SaveAnswered == response.op = "save_availability"

\* the window [start, end) a descriptor asks for
WindowOf(slot_data) ==
    <<strptime_HM(slot_data.start_time), strptime_HM(slot_data.end_time)>>

\* two descriptors of the set share the day and their windows overlap
SameDayOverlap(slots_data) ==
    \E i \in 1..Len(slots_data) : \E j \in 1..Len(slots_data) :
        /\ i < j
        /\ slots_data[i].day_of_week = slots_data[j].day_of_week
        /\ HalfOpenOverlap(WindowOf(slots_data[i])[1], WindowOf(slots_data[i])[2],
                           WindowOf(slots_data[j])[1], WindowOf(slots_data[j])[2])

\* a descriptor no template may be made of
InvalidDescriptor(slot_data) ==
    \/ slot_data.day_of_week \notin 0..6
    \/ ~ (WindowOf(slot_data)[1] < WindowOf(slot_data)[2])
    \/ slot_duration_of(slot_data) <= 0

TemplateIds(table) == {table[i].id : i \in 1..Len(table)}

(***************************************************************************)
(* C11.  A submitted availability set with two descriptors of the same day *)
(* and overlapping windows is rejected as a whole: the stored templates    *)
(* are as before.                                                          *)
(***************************************************************************)
C11_OverlappingSetRejected ==
    [][(response'.op = "save_availability" /\ SameDayOverlap(response'.slots))
          => (~ response'.success /\ templates' = templates)]_vars

(***************************************************************************)
(* C12.  A submitted availability set with a descriptor whose day is not   *)
(* in 0..6, whose start is not before its end or whose duration is not     *)
(* positive is rejected before any store mutation.                         *)
(***************************************************************************)
C12_InvalidSetRejected ==
    [][(/\ response'.op = "save_availability"
        /\ \E i \in 1..Len(response'.slots) : InvalidDescriptor(response'.slots[i]))
          => (~ response'.success /\ templates' = templates)]_vars

(***************************************************************************)
(* C13.  Every stored template has start_time < end_time, day_of_week in   *)
(* 0..6 and slot_duration_minutes > 0.                                     *)
(***************************************************************************)
C13_TemplatesWellFormed ==
    \A i \in 1..Len(templates) :
        /\ templates[i].start_time < templates[i].end_time
        /\ templates[i].day_of_week \in 0..6
        /\ templates[i].slot_duration_minutes > 0

(***************************************************************************)
(* C14.  A set saved successfully and submitted again as the very next     *)
(* request, with no store failure in either, creates no template the       *)
(* second time.                                                            *)
(***************************************************************************)
C14_ResubmitCreatesNothing ==
    [][(/\ SaveAnswered /\ response.success /\ response.failing = {}
        /\ response'.op = "save_availability"
        /\ response'.doctor_id = response.doctor_id
        /\ response'.slots = response.slots
        /\ response'.failing = {})
          => TemplateIds(templates') \subseteq TemplateIds(templates)]_vars

(***************************************************************************)
(* C15.  A save during which the store call of some record failed is not   *)
(* answered as a success.                                                  *)
(***************************************************************************)
C15_RecordFailureReported ==
    (SaveAnswered /\ response.invalid = 0 /\ response.failing # {})
        => ~ response.success

(***************************************************************************)
(* Vocabulary of the cancellation properties.                              *)
(***************************************************************************)
\* this step is cancel_appointment by the patient who owns the appointment
OwnerCancels ==
    /\ response'.op = "cancel_appointment"
    /\ response'.appointment_id \in 1..Len(appointments)
    /\ appointments[response'.appointment_id].patient_id = response'.patient_id

\* the appointment the step is about, as stored before the step
Cancelled_before == appointments[response'.appointment_id]

C17_OwnerCancelSucceeds ==
    [][(/\ OwnerCancels
        /\ Cancelled_before.status = SCHEDULED
        /\ Cancelled_before.date >= Today)
          => /\ response'.outcome = "success"
             /\ appointments'[response'.appointment_id].status = CANCELLED]_vars

(***************************************************************************)
(* C18.  An appointment is inserted as Scheduled; a stored status changes  *)
(* only from Scheduled, and only to Cancelled, Completed or NoShow, so a   *)
(* status of Cancelled, Completed or NoShow stays as it is.                *)
(***************************************************************************)
C18_StatusOnlyMovesForward ==
    [][/\ Len(appointments') >= Len(appointments)
       /\ \A i \in 1..Len(appointments') :
             IF i > Len(appointments)
             THEN appointments'[i].status = SCHEDULED
             ELSE \/ appointments'[i].status = appointments[i].status
                  \/ /\ appointments[i].status = SCHEDULED
                     /\ appointments'[i].status \in {CANCELLED, COMPLETED, NO_SHOW}]_vars

\* the owner's cancellation of an appointment that is Completed, Cancelled
\* or NoShow, today, has run next to an appointment booked in this run
C18_Witness ==
    /\ response.op = "cancel_appointment"
    /\ response.outcome = "error"
    /\ appointments[response.appointment_id].patient_id = response.patient_id
    /\ appointments[response.appointment_id].status \in {COMPLETED, CANCELLED, NO_SHOW}
    /\ \E i \in 1..Len(appointments) :
          i # response.appointment_id /\ appointments[i].status = SCHEDULED

(***************************************************************************)
(* C19.  A booking whose read of the doctor's appointments failed in the   *)
(* conflict check does not end as a success: it inserts nothing and        *)
(* returns an error.                                                       *)
(***************************************************************************)
C19_FailedReadNotBooked ==
    [][\A w \in Procs :
          ( /\ pc[w] = "checked"
            /\ "read_failed" \in DOMAIN result[w]
            /\ pc'[w] = "done" )
          => /\ result'[w].outcome # "created"
             /\ appointments' = appointments]_vars

(***************************************************************************)
(* C20.  get_time_slots offers the default schedule, 09:00 to 17:00 in     *)
(* 30-minute windows less the booked ones, when no template of the doctor  *)
(* applies to the date, and offers no window outside the applying          *)
(* templates when one does.                                                *)
(***************************************************************************)
TimeSlotsAnswered == response.op = "get_time_slots"

\* the windows a get_time_slots response offers, in response order
Offered(r) == [i \in 1..Len(r.time_slots) |->
                  <<Parse12(r.time_slots[i].val[1]), Parse12(r.time_slots[i].val[2])>>]

C20_DefaultScheduleOnlyAsFallback ==
    TimeSlotsAnswered =>
        IF Matching(response.doctor_id, response.date) = <<>>
        THEN Offered(response)
               = SelectSeq(DefaultWindows,
                           LAMBDA w : Occupying(response.doctor_id, response.date, w) = {})
        ELSE \A i \in 1..Len(response.time_slots) :
                \E k \in 1..Len(Matching(response.doctor_id, response.date)) :
                    /\ Matching(response.doctor_id, response.date)[k].start_time
                          <= Offered(response)[i][1]
                    /\ Offered(response)[i][2]
                          <= Matching(response.doctor_id, response.date)[k].end_time

(***************************************************************************)
(* C21.  Converting a slot object to its dictionary and back keeps id and  *)
(* doctor_id (as their strings, which is how the test compares them),      *)
(* day_of_week, start_time, end_time and is_available; the dictionary      *)
(* holds the times as 'HH:MM:SS'.                                          *)
(***************************************************************************)
RoundTripAnswered == response.op = "slot_round_trip"

\* s is the 'HH:MM:SS' string of the time tm
IsHHMMSS(s, tm) ==
    /\ Len(s) = 8
    /\ s[3] = 10 /\ s[6] = 10
    /\ s[1] * 10 + s[2] = tm.hour
    /\ s[4] * 10 + s[5] = tm.minute
    /\ s[7] * 10 + s[8] = tm.second

C21_SlotRoundTrip ==
    RoundTripAnswered =>
        /\ str(response.new_slot.id) = str(response.slot.id)
        /\ str(response.new_slot.doctor_id) = str(response.slot.doctor_id)
        /\ response.new_slot.day_of_week = response.slot.day_of_week
        /\ response.new_slot.start_time = response.slot.start_time
        /\ response.new_slot.end_time = response.slot.end_time
        /\ response.new_slot.is_available = response.slot.is_available
        /\ IsHHMMSS(response.slot_dict.start_time, response.slot.start_time)
        /\ IsHHMMSS(response.slot_dict.end_time, response.slot.end_time)

\* the slot of the model test, Tuesday 09:00 to 17:00, has made the round trip
C21_Witness ==
    /\ RoundTripAnswered
    /\ response.slot.day_of_week = 1
    /\ response.slot.start_time = time(start_hour * 60)
    /\ response.slot.end_time = time(end_hour * 60)
    /\ response.slot.is_available
    /\ response.new_slot.start_time = time(start_hour * 60)

(***************************************************************************)
(* C22.  In every store state and for every doctor, date and window the    *)
(* patient listing could offer, the listing leaves the window out exactly  *)
(* when a booking request for that window would be answered                *)
(* slot-unavailable.                                                       *)
(***************************************************************************)
\* get_time_slots treats the window as occupied
ListingOccupied(doctor_id, date, w) ==
    DisplaySlot(w[1], w[2]) \notin Range(get_time_slots(doctor_id, date))

\* submit_appointment would refuse the window at its conflict check
BookingRejected(doctor_id, date, w) ==
    HasConflict(doctor_id, date, DisplaySlot(w[1], w[2]))

SavePassed == response'.op = "save_availability" /\ response'.success

\* the ids of the doctor's templates
IdsOf(table, doctor_id) ==
    {table[i].id : i \in {j \in 1..Len(table) : table[j].doctor_id = doctor_id}}

\* the ids the descriptors of a set carry
ReferencedIds(slots_data) == {slots_data[i].id : i \in 1..Len(slots_data)}

\* the row of an id
RowOf(table, id) == table[CHOOSE i \in 1..Len(table) : table[i].id = id]

InValidity(t, date) ==
    /\ ("valid_from" \in DOMAIN t /\ t.valid_from # <<>>) => t.valid_from[1] <= date
    /\ ("valid_until" \in DOMAIN t /\ t.valid_until # <<>>) => date <= t.valid_until[1]

\* the templates that may contribute slots for the doctor and date
Contributing(doctor_id, date) ==
    {t \in Range(templates) :
        /\ t.doctor_id = doctor_id
        /\ t.day_of_week = weekday(date)
        /\ t.is_available
        /\ InValidity(t, date)}

C25_OnlyApplyingTemplatesContribute ==
    /\ BookingSlotsAnswered =>
          \A i \in 1..Len(response.slots) :
              \E t \in Contributing(response.doctor_id, response.date) :
                  /\ t.start_time <= Listed(response)[i][1]
                  /\ Listed(response)[i][2] <= t.end_time
    /\ (TimeSlotsAnswered /\ TemplateWindows(response.doctor_id, response.date) # <<>>) =>
          \A i \in 1..Len(response.time_slots) :
              \E t \in Contributing(response.doctor_id, response.date) :
                  <<t.start_time, t.end_time>> = Offered(response)[i]

(***************************************************************************)
(* C26.  A change of the templates leaves the appointments and every       *)
(* booking in flight as they are, and each step of a booking is decided by *)
(* the request and the appointments alone: the check rejects exactly when  *)
(* a scheduled appointment of the doctor on the date carries the posted    *)
(* time, and a checked request is inserted whatever happened to the        *)
(* templates since.                                                        *)
(***************************************************************************)
\* what the appointments say about a request
VerdictFromAppointments(r) ==
    IF ~ TimeSlotValid(r.time_slot) THEN "invalid"
    ELSE IF \E i \in 1..Len(appointments) :
                /\ appointments[i].doctor_id = r.doctor_id
                /\ appointments[i].date = r.date
                /\ appointments[i].status = SCHEDULED
                /\ StrEq(appointments[i].time_slot, r.time_slot)
    THEN "slot_unavailable"
    ELSE "proceed"

\* worker w takes the check step of a booking
Checks(w) == pc[w] # "checked" /\ <<pc[w], req[w], result[w]>>' # <<pc[w], req[w], result[w]>>

C26_BookingIgnoresTemplates ==
    [][/\ templates' # templates => UNCHANGED <<appointments, pc, req, result>>
       /\ \A w \in Procs :
            /\ Checks(w) =>
                 LET verdict == VerdictFromAppointments(req'[w])
                 IN  /\ appointments' = appointments
                     /\ (verdict = "proceed") = (pc'[w] = "checked")
                     /\ verdict # "proceed" => result'[w].outcome = verdict
            /\ (pc[w] = "checked" /\ pc'[w] # "checked") =>
                 /\ result'[w].outcome = "created"
                 /\ Len(appointments') = Len(appointments) + 1
                 /\ \A i \in 1..Len(appointments) : appointments'[i] = appointments[i]
                 /\ LET row == appointments'[Len(appointments')]
                    IN  /\ row.doctor_id = req[w].doctor_id
                        /\ row.date = req[w].date
                        /\ row.patient_id = req[w].patient_id
                        /\ row.status = SCHEDULED]_vars

\* a booking for the first half hour of the stored template has passed its
\* check, and the template was deleted before the insert
C26_Witness ==
    /\ pc["w1"] = "checked"
    /\ req["w1"].doctor_id = SessionDoctor
    /\ req["w1"].date = Today
    /\ req["w1"].time_slot = DisplaySlot(start_hour * 60, start_hour * 60 + 30)
    /\ response.op = "delete_availability_slot"
    /\ response.success
    /\ templates = <<>>

(***************************************************************************)
(* C27.  When two concurrent bulk_update_availability calls for one doctor *)
(* have both returned, the doctor's templates are the ones one of the two  *)
(* calls described: as many rows as that call had descriptors, with their  *)
(* days and windows.                                                       *)
(***************************************************************************)
\* the days and windows a descriptor list asks for
DesiredWindows(slots_data) ==
    {<<slots_data[i].day_of_week, strptime_HM(slots_data[i].start_time),
       strptime_HM(slots_data[i].end_time)>> : i \in 1..Len(slots_data)}

\* the days and windows of the doctor's stored templates
StoredWindows(doctor_id) ==
    LET slots == get_availability_by_doctor(doctor_id)
    IN  {<<slots[i].day_of_week, slots[i].start_time, slots[i].end_time>> : i \in 1..Len(slots)}

BothReturned == \A w \in Procs : pc[w] = "returned"

C27_ConcurrentSavesLeaveOneSet ==
    BothReturned =>
        \E w \in Procs :
            /\ StoredWindows(req[w].doctor_id) = DesiredWindows(req[w].slots_data)
            /\ Len(get_availability_by_doctor(req[w].doctor_id)) = Len(req[w].slots_data)

(***************************************************************************)
(* C28.  Asked for the same doctor and date over the same store, the       *)
(* patient slot listing and the booking-slot listing offer the same set of *)
(* time windows.                                                           *)
(***************************************************************************)
\* the windows the booking-slot listing gives in the current state
BookingWindows(doctor_id, date) ==
    LET r == [slots |-> get_available_booking_slots(doctor_id, date)]
    IN  Range(Listed(r))

\* the windows the patient listing gives in the current state
PatientWindows(doctor_id, date) ==
    LET r == [time_slots |-> get_time_slots(doctor_id, date)]
    IN  Range(Offered(r))

C28_ListingsOfferSameWindows ==
    /\ TimeSlotsAnswered =>
          Range(Offered(response)) = BookingWindows(response.doctor_id, response.date)
    /\ BookingSlotsAnswered =>
          Range(Listed(response)) = PatientWindows(response.doctor_id, response.date)

(***************************************************************************)
(* C29.  Whatever the durations of the stored templates, the slot          *)
(* generator returns a list: a booking-slot listing is never answered      *)
(* after the generator left through an exception.                          *)
(***************************************************************************)
C29_GeneratorReturnsList ==
    BookingSlotsAnswered =>
        ~ get_available_slots_for_booking_raises(response.doctor_id, response.date)

(***************************************************************************)
(* C30.  cancel_appointment by a patient whose profile id is not the       *)
(* appointment's patient_id is answered "not found or no permission" and   *)
(* leaves the stored appointments as they are, whatever the status and the *)
(* date of the appointment.                                                *)
(***************************************************************************)
\* the step is a cancellation asked by someone else than the owner
StrangerCancels ==
    /\ response'.op = "cancel_appointment"
    /\ response'.appointment_id \in 1..Len(appointments)
    /\ appointments[response'.appointment_id].patient_id # response'.patient_id

C30_StrangerCancelRejected ==
    [][StrangerCancels =>
          /\ response'.outcome = "not_found"
          /\ appointments' = appointments]_vars

\* another patient's cancellation of a scheduled appointment booked in this
\* run has been refused
C30_Witness ==
    /\ response.op = "cancel_appointment"
    /\ response.outcome = "not_found"
    /\ response.appointment_id \in 1..Len(appointments)
    /\ appointments[response.appointment_id].patient_id # response.patient_id
    /\ appointments[response.appointment_id].status = SCHEDULED
    /\ appointments[response.appointment_id].date = Today
    /\ Len(appointments) = 2
    /\ appointments[1].status = COMPLETED

====
